---- MODULE Spec2Model ----
(***************************************************************************)
(* ReconnectingWebSocket (nktkas/rews): the reconnection loop, the         *)
(* lifecycle awaiter, the outbound buffer and permanent termination,       *)
(* modelled as a state machine over the JavaScript event loop.             *)
(*                                                                         *)
(* One action is one task of the event loop (an application call, a        *)
(* transport notification, a timer callback) or one microtask (the         *)
(* continuation of _runLoop after an await).  While a microtask is pending *)
(* no transport notification and no timer can run; only the code that is   *)
(* still on the stack can (a public event listener, or the caller of       *)
(* close()), which is what the application actions stand for there.        *)
(***************************************************************************)
EXTENDS Integers, Sequences, FiniteSets, TLC

\* ------------------------------------------------------------------ bounds
\* Largest maxRetries option tried.
MaxRetriesOpt == 2
\* Number of send() calls in a run; the k-th call sends payload k.
MaxSends == 2
\* Largest reconnection delay / connect timeout, in clock ticks.
MaxDelay == 1
\* Number of listener, on* and binaryType calls in a run.
MaxApi == 3

\* Connections one run may create: enough for maxRetries + 1 failures in a row.
MaxConn == MaxRetriesOpt + 1
\* maxRetries of a handle that is left on the default delay policy.
MaxDefaultRetries == 8

\* --------------------------------------------------------- program constants
CONNECTING == 0
OPEN == 1
CLOSING == 2
CLOSED == 3
\* The default reconnection delay: 150 ms doubled per attempt, at most 10 s.
DelayBase == 150
DelayCap == 10000
\* Close code of the close event synthesized by close() during CONNECTING.
AbnormalClosure == 1006
\* Close code of the connect timeout.
TimeoutCode == 3008
\* Close codes the transport itself may report.
NativeCodes == {1000, 1006}
\* The close events of the transport: a clean close with the peer's reason,
\* or an abnormal one.
NativeCloses ==
  {[code |-> code, reason |-> IF code = 1000 THEN "bye" ELSE "", wasClean |-> code = 1000] :
     code \in NativeCodes}
\* The arguments of the application call a step is, when it has any that
\* matter: the code and reason given to close().
NoArgs == [code |-> 0, reason |-> ""]

ErrorCodes == {"RECONNECTION_LIMIT", "TERMINATED_BY_USER", "UNKNOWN_ERROR"}

\* signal.reason before abort(): undefined.
Undefined == [code |-> "undefined", cause |-> "undefined"]

\* The event types that have an on* attribute.
AttributeEventType == {"open", "message", "error", "close"}

\* A callback is a function the application registered (wrapper 0) or the
\* arrow function an on* setter wrapped around a handler; every assignment
\* creates a new arrow function, told apart by the serial number of the call.
NoListener == [handler |-> "none", wrapper |-> 0]

VARIABLES
  socks,            \* every WebSocket created so far; _socket is the last one
  attempt,          \* _attempt
  messageBuffer,    \* _messageBuffer
  abortController,  \* _abortController.signal: [aborted, reason]
  reconnectOptions, \* maxRetries, connectionTimeout, reconnectionDelay
  pc,               \* where _runLoop is suspended
  sleepLeft,        \* ticks left on the timer of sleep()
  elapsed,          \* ticks spent in the current sleep() (capped)
  eventCount,       \* public open / close / terminate events dispatched so far
  terminateDetail,  \* detail of the terminate event dispatched, if any
  sent,             \* payloads the transport accepted, in order
  nSends,           \* send() calls made so far
  lastOp,           \* the task or microtask that made the last step
  emitted,          \* public events dispatched by the last step, in order
  handed,           \* socket.send() calls made by the last step, in order
  fault,            \* exception the last step raised to its caller
  binaryType,       \* _binaryType
  listeners,        \* the event listener list of the handle (an EventTarget)
  attributeListeners, \* _attributeListeners
  onhandler,        \* _onopen, _onmessage, _onerror, _onclose
  nApi,             \* listener and attribute calls made so far
  invoked,          \* listener callbacks run by the last step, in order
  urlProvider,      \* _urlProvider: "value" or "function"
  protocolsProvider, \* _protocolsProvider: "value" or "function"
  providerCalls,    \* calls of the provider functions made so far
  args              \* code and reason of the close() call the last step was

vars == <<socks, attempt, messageBuffer, abortController, reconnectOptions, pc,
          sleepLeft, elapsed, eventCount, terminateDetail, sent, nSends, lastOp, emitted, handed, fault,
          binaryType, listeners, attributeListeners, onhandler, nApi, invoked,
          urlProvider, protocolsProvider, providerCalls, args>>

\* The state as one record, so that a handler can be written as the
\* composition of the calls it makes.
St ==
  [socks |-> socks, attempt |-> attempt, messageBuffer |-> messageBuffer,
   abortController |-> abortController, reconnectOptions |-> reconnectOptions,
   pc |-> pc, sleepLeft |-> sleepLeft, elapsed |-> elapsed,
   eventCount |-> eventCount, terminateDetail |-> terminateDetail,
   sent |-> sent, nSends |-> nSends, lastOp |-> lastOp, emitted |-> emitted,
   handed |-> handed, fault |-> fault, binaryType |-> binaryType,
   listeners |-> listeners, attributeListeners |-> attributeListeners,
   onhandler |-> onhandler, nApi |-> nApi, invoked |-> invoked,
   urlProvider |-> urlProvider, protocolsProvider |-> protocolsProvider,
   providerCalls |-> providerCalls, args |-> args]

\* The state a task starts from: the per-step outputs are empty.
Begin(op) ==
  [St EXCEPT !.lastOp = op, !.emitted = <<>>, !.handed = <<>>, !.fault = "none",
             !.invoked = <<>>, !.args = NoArgs]

Commit(s) ==
  /\ socks' = s.socks
  /\ attempt' = s.attempt
  /\ messageBuffer' = s.messageBuffer
  /\ abortController' = s.abortController
  /\ reconnectOptions' = s.reconnectOptions
  /\ pc' = s.pc
  /\ sleepLeft' = s.sleepLeft
  /\ elapsed' = s.elapsed
  /\ eventCount' = s.eventCount
  /\ terminateDetail' = s.terminateDetail
  /\ sent' = s.sent
  /\ nSends' = s.nSends
  /\ lastOp' = s.lastOp
  /\ emitted' = s.emitted
  /\ handed' = s.handed
  /\ fault' = s.fault
  /\ binaryType' = s.binaryType
  /\ listeners' = s.listeners
  /\ attributeListeners' = s.attributeListeners
  /\ onhandler' = s.onhandler
  /\ nApi' = s.nApi
  /\ invoked' = s.invoked
  /\ urlProvider' = s.urlProvider
  /\ protocolsProvider' = s.protocolsProvider
  /\ providerCalls' = s.providerCalls
  /\ args' = s.args

\* ------------------------------------------------------------ introspection
\* get isTerminated
IsTerminated(s) == s.abortController.aborted
\* get terminationReason
TerminationReason(s) == s.abortController.reason

\* Index of this._socket in socks; 0 while it is still undefined.
Cur(s) == Len(s.socks)
ReadyState(s) == s.socks[Cur(s)].readyState

\* EventTarget.dispatchEvent on the handle itself: the listeners of the
\* event's type run in the target phase, the capturing ones first, each group
\* in registration order; a once listener is removed as it is invoked.
Invocations(registry, type) ==
  LET pick(capture) ==
        SelectSeq(registry, LAMBDA l : l.type = type /\ l.capture = capture)
      run == pick(TRUE) \o pick(FALSE)
  IN [i \in DOMAIN run |-> [type |-> type, callback |-> run[i].callback]]

\* Mutant: a once listener stays in the list after it has run.
RemoveOnceSkipped(registry, type) == registry

RemoveOnce(registry, type) ==
  SelectSeq(registry, LAMBDA l : ~(l.type = type /\ l.once))

\* this.dispatchEvent(ev): the public listeners run synchronously.
Emit(s, ev) ==
  [s EXCEPT !.emitted = Append(@, ev),
            !.eventCount = IF ev.type \in DOMAIN @
                           THEN [@ EXCEPT ![ev.type] = @ + 1] ELSE @,
            !.terminateDetail = IF ev.type = "terminate" THEN ev.detail ELSE @,
            !.invoked = @ \o Invocations(s.listeners, ev.type),
            !.listeners = RemoveOnce(@, ev.type)]

Event(type) ==
  [type |-> type, code |-> 0, reason |-> "", wasClean |-> FALSE, detail |-> Undefined]
CloseEvent(code, reason, wasClean) ==
  [type |-> "close", code |-> code, reason |-> reason, wasClean |-> wasClean,
   detail |-> Undefined]
TerminateEvent(error) ==
  [type |-> "terminate", code |-> 0, reason |-> "", wasClean |-> FALSE, detail |-> error]

\* ---------------------------------------------------------------- transport
\* WebSocket.close(): a connection that is connecting or open starts closing;
\* closing an already closing or closed one does nothing.
SocketClose(s, id) ==
  IF s.socks[id].readyState \in {CONNECTING, OPEN}
  THEN [s EXCEPT !.socks[id].readyState = CLOSING]
  ELSE s

\* What WebSocket.send() does: it throws while CONNECTING, transmits while
\* OPEN unless the transport fails (ok = FALSE), and silently discards the
\* payload once the connection is closing or closed.
SendResult(readyState, ok) ==
  IF readyState = CONNECTING THEN "InvalidStateError"
  ELSE IF readyState = OPEN THEN (IF ok THEN "accepted" ELSE "SendError")
  ELSE "discarded"

Throws(result) == result \in {"InvalidStateError", "SendError"}

SocketSend(s, id, data, ok) ==
  LET r == SendResult(s.socks[id].readyState, ok)
  IN [s EXCEPT !.handed = Append(@, [sock |-> id, data |-> data, result |-> r]),
               !.sent = IF r = "accepted" THEN Append(@, data) ELSE @]

\* ------------------------------------------------------ createSocketWithTimeout
\* The socket as createSocketWithTimeout returns it, with the lifecycle
\* listeners of _awaitSocketLifecycle attached.
FreshSocket(url, protocols, timeout) ==
  [url |-> url,
   protocols |-> protocols,
   readyState |-> CONNECTING,
   attached |-> TRUE,
   timer |-> IF timeout.set THEN "armed" ELSE "off",
   left |-> IF timeout.set THEN timeout.ms ELSE 0,
   binaryType |-> "blob"]

\* Mutant: the connect timer is never cleared.
TimerCleanupSkipped(s, id) == s

\* cleanup: the once-listeners for open, close and error clear the timer.
TimerCleanup(s, id) ==
  IF s.socks[id].timer = "armed"
  THEN [s EXCEPT !.socks[id].timer = "off", !.socks[id].left = 0]
  ELSE s

\* ------------------------------------------------------------------ _cleanup
\* Mutant: abort() called without the error.
AbortWithoutReason(ac, reason) ==
  IF ac.aborted THEN ac ELSE [aborted |-> TRUE, reason |-> Undefined]

\* AbortController.abort(reason): the first call wins.
AbortWith(ac, reason) ==
  IF ac.aborted THEN ac ELSE [aborted |-> TRUE, reason |-> reason]

\* Mutant: sleep() does not listen to the abort signal.
SleepOnAbortIgnored(s) == s

\* onAbort of sleep(): a pending delay is cancelled and its promise rejects.
SleepOnAbort(s) ==
  IF s.pc = "sleep"
  THEN [s EXCEPT !.pc = "rejected", !.sleepLeft = 0, !.elapsed = 0]
  ELSE s

ReconnectingWebSocketError(code, cause) == [code |-> code, cause |-> cause]

\* Mutant: _cleanup without its isTerminated guard.
CleanupGuardMissing(s) == FALSE

\* if (this.isTerminated) return;
CleanupGuard(s) == IsTerminated(s)

\* Mutant: _cleanup keeps the pending payloads.
ClearBufferSkipped(s) == s

\* this._messageBuffer = [];
ClearBuffer(s) == [s EXCEPT !.messageBuffer = <<>>]

Cleanup(s, code, cause) ==
  IF CleanupGuard(s) THEN s
  ELSE
    LET error == ReconnectingWebSocketError(code, cause)
        s1 == SleepOnAbort([s EXCEPT !.abortController = AbortWith(@, error)])
        s2 == IF Cur(s1) = 0 THEN s1 ELSE SocketClose(s1, Cur(s1))
    IN Emit(ClearBuffer(s2), TerminateEvent(error))

\* ---------------------------------------------------- _awaitSocketLifecycle
\* Mutant: the entry whose send threw is dropped with the sent prefix.
SpliceDropsFailed(buffer, sentCount) == SubSeq(buffer, sentCount + 2, Len(buffer))

\* buffer.splice(0, sentCount)
Splice(buffer, sentCount) == SubSeq(buffer, sentCount + 1, Len(buffer))

\* The flush loop (for ...; sentCount++) from entry sentCount + 1 on: the
\* transport fails on entry failAt (failAt beyond the buffer: on none).
\* Yields the state, the count of entries sent and whether a send threw.
RECURSIVE Flush(_, _, _)
Flush(s, sentCount, failAt) ==
  IF sentCount >= Len(s.messageBuffer)
  THEN [state |-> s, sentCount |-> sentCount, threw |-> FALSE]
  ELSE
    LET ok == sentCount + 1 # failAt
        r == SendResult(ReadyState(s), ok)
        s1 == SocketSend(s, Cur(s), s.messageBuffer[sentCount + 1], ok)
    IN IF Throws(r)
       THEN [state |-> s1, sentCount |-> sentCount, threw |-> TRUE]
       ELSE Flush(s1, sentCount + 1, failAt)

\* Mutant: the open listener leaves the attempt counter alone.
ResetAttemptSkipped(s) == s

\* this._attempt = 0;
ResetAttempt(s) == [s EXCEPT !.attempt = 0]

\* Mutant: the open listener announces the open after a failed flush too.
OnOpenAlwaysEmits(s, failAt) ==
  LET f == Flush(ResetAttempt(s), 0, failAt)
      s1 == f.state
  IN IF f.threw
     THEN Emit(SocketClose(
                 [s1 EXCEPT !.messageBuffer = Splice(@, f.sentCount)], Cur(s1)),
               Event("open"))
     ELSE Emit([s1 EXCEPT !.messageBuffer = <<>>], Event("open"))

\* The open listener.
OnOpen(s, failAt) ==
  LET f == Flush(ResetAttempt(s), 0, failAt)
      s1 == f.state
  IN IF f.threw
     THEN SocketClose(
            [s1 EXCEPT !.messageBuffer = Splice(@, f.sentCount)], Cur(s1))
     ELSE Emit([s1 EXCEPT !.messageBuffer = <<>>], Event("open"))

\* Mutant: the message listener does not re-emit the message.
OnMessageSilent(s) == s

\* The message listener.
OnMessage(s) == Emit(s, Event("message"))

\* Mutant: an error ends the attempt as a close does.
OnErrorResolves(s) == [Emit(s, Event("error")) EXCEPT !.pc = "resolved"]

\* The error listener.
OnError(s) == Emit(s, Event("error"))

\* Mutant: the close listener leaves the lifecycle listeners attached.
OnCloseKeepsListeners(s, id, code, reason, wasClean) ==
  [Emit(s, CloseEvent(code, reason, wasClean)) EXCEPT !.pc = "resolved"]

\* The close listener: ac.abort() detaches the four listeners, the public
\* close event is dispatched, and the promise _runLoop awaits resolves.
OnClose(s, id, code, reason, wasClean) ==
  LET s1 == [s EXCEPT !.socks[id].attached = FALSE]
      s2 == Emit(s1, CloseEvent(code, reason, wasClean))
  IN [s2 EXCEPT !.pc = "resolved"]

\* An event dispatched on socket id runs the listeners registered on it: the
\* timer's cleanup first, then the lifecycle listener while it is attached.
DispatchOpen(s, id, failAt) ==
  LET s1 == TimerCleanup(s, id)
  IN IF s1.socks[id].attached THEN OnOpen(s1, failAt) ELSE s1

DispatchMessage(s, id) ==
  IF s.socks[id].attached THEN OnMessage(s) ELSE s

\* Mutant: the error listener outlives the close of its attempt.
DispatchErrorDetached(s, id) == OnError(TimerCleanup(s, id))

DispatchError(s, id) ==
  LET s1 == TimerCleanup(s, id)
  IN IF s1.socks[id].attached THEN OnError(s1) ELSE s1

DispatchClose(s, id, code, reason, wasClean) ==
  LET s1 == TimerCleanup(s, id)
  IN IF s1.socks[id].attached THEN OnClose(s1, id, code, reason, wasClean) ELSE s1

\* ---------------------------------------------------------------- close()
\* Mutant: the close event of close() repeats the caller's code and reason.
SyntheticCloseEchoes(given) ==
  [code |-> given.code, reason |-> given.reason, wasClean |-> FALSE]

\* new CloseEvent("close", { code: 1006, reason: "", wasClean: false }): the
\* event close() dispatches on a socket that was connecting.
SyntheticClose(given) == [code |-> AbnormalClosure, reason |-> "", wasClean |-> FALSE]

\* Mutant: close() terminates the handle whatever `permanently` says.
CloseCallIgnoresFlag(s, permanently) ==
  IF Cur(s) = 0 THEN [s EXCEPT !.fault = "TypeError"]
  ELSE
    LET wasConnecting == ReadyState(s) = CONNECTING
        s1 == Cleanup(SocketClose(s, Cur(s)), "TERMINATED_BY_USER", "none")
        e == SyntheticClose(s.args)
    IN IF wasConnecting
       THEN DispatchClose(s1, Cur(s1), e.code, e.reason, e.wasClean)
       ELSE s1

\* Mutant: close() dispatches its close event before it terminates the handle.
CloseCallClosesFirst(s, permanently) ==
  IF Cur(s) = 0 THEN [s EXCEPT !.fault = "TypeError"]
  ELSE
    LET wasConnecting == ReadyState(s) = CONNECTING
        s1 == SocketClose(s, Cur(s))
        e == SyntheticClose(s.args)
        s2 == IF wasConnecting
              THEN DispatchClose(s1, Cur(s1), e.code, e.reason, e.wasClean)
              ELSE s1
    IN IF permanently THEN Cleanup(s2, "TERMINATED_BY_USER", "none") ELSE s2

\* close(code, reason, permanently), also when a callback of the handle
\* calls it.  With no socket yet, reading _socket.readyState throws.
CloseCall(s, permanently) ==
  IF Cur(s) = 0 THEN [s EXCEPT !.fault = "TypeError"]
  ELSE
    LET wasConnecting == ReadyState(s) = CONNECTING
        s1 == SocketClose(s, Cur(s))
        s2 == IF permanently THEN Cleanup(s1, "TERMINATED_BY_USER", "none") ELSE s1
        e == SyntheticClose(s.args)
    IN IF wasConnecting
       THEN DispatchClose(s2, Cur(s2), e.code, e.reason, e.wasClean)
       ELSE s2

\* ----------------------------------------------------------------- send()
\* Mutant: send() buffers whenever the handle is not terminated.
SendCallAlwaysBuffers(s, data, ok) ==
  IF Cur(s) = 0 THEN [s EXCEPT !.fault = "TypeError"]
  ELSE IF ~IsTerminated(s)
  THEN [s EXCEPT !.messageBuffer = Append(@, data)]
  ELSE SocketSend(s, Cur(s), data, ok)

SendCall(s, data, ok) ==
  IF Cur(s) = 0 THEN [s EXCEPT !.fault = "TypeError"]
  ELSE IF ReadyState(s) # OPEN /\ ~IsTerminated(s)
  THEN [s EXCEPT !.messageBuffer = Append(@, data)]
  ELSE LET r == SendResult(ReadyState(s), ok)
       IN [SocketSend(s, Cur(s), data, ok) EXCEPT
             !.fault = IF Throws(r) THEN r ELSE @]

\* ------------------------------------------------------- the event surface
SameListener(l, type, callback, capture) ==
  l.type = type /\ l.callback = callback /\ l.capture = capture

\* Mutant: every addEventListener call appends an entry.
AddListenerAlways(registry, type, callback, capture, once) ==
  Append(registry,
         [type |-> type, callback |-> callback, capture |-> capture, once |-> once])

\* EventTarget.addEventListener, which the handle inherits: a second entry
\* with the same type, callback and capture flag is not added.
AddListener(registry, type, callback, capture, once) ==
  IF \E i \in DOMAIN registry : SameListener(registry[i], type, callback, capture)
  THEN registry
  ELSE Append(registry,
              [type |-> type, callback |-> callback, capture |-> capture, once |-> once])

\* EventTarget.removeEventListener, which the handle inherits.
RemoveListener(registry, type, callback, capture) ==
  SelectSeq(registry, LAMBDA l : ~SameListener(l, type, callback, capture))

\* Mutant: the previous attribute listener is left registered.
RemovePreviousSkipped(s, type) == s

\* const previous = this._attributeListeners[type];
\* if (previous) super.removeEventListener(type, previous);
RemovePrevious(s, type) ==
  LET previous == s.attributeListeners[type]
  IN IF previous # NoListener
     THEN [s EXCEPT !.listeners = RemoveListener(@, type, previous, FALSE)]
     ELSE s

\* _setAttributeListener(type, listener); NoListener stands for null.
SetAttributeListener(s, type, listener) ==
  LET s1 == RemovePrevious(s, type)
  IN IF listener # NoListener
     THEN [s1 EXCEPT !.attributeListeners[type] = listener,
                     !.listeners = AddListener(@, type, listener, FALSE, FALSE)]
     ELSE [s1 EXCEPT !.attributeListeners[type] = NoListener]

\* set onopen / onmessage / onerror / onclose: the handler is stored and a
\* new arrow function calling it becomes the attribute listener.
SetOnHandler(s, type, handler) ==
  LET s1 == [s EXCEPT !.onhandler[type] = handler, !.nApi = @ + 1]
  IN SetAttributeListener(
       s1, type,
       IF handler # "null" THEN [handler |-> handler, wrapper |-> s1.nApi]
       ELSE NoListener)

\* set binaryType: without a socket the second assignment throws.
SetBinaryType(s, value) ==
  LET s1 == [s EXCEPT !.binaryType = value]
  IN IF Cur(s1) = 0 THEN [s1 EXCEPT !.fault = "TypeError"]
     ELSE [s1 EXCEPT !.socks[Cur(s1)].binaryType = value]

\* ------------------------------------------------------------ _createSocket
ThrowCause(o) ==
  CASE o = "urlThrows" -> "urlError"
    [] o = "protocolsThrows" -> "protocolsError"
    [] o = "constructorThrows" -> "constructorError"
    [] OTHER -> "TypeError"

CreateOutcomes ==
  {"ok", "urlThrows", "urlCloses", "protocolsThrows", "constructorThrows"}

Throwing(o) == o \in {"urlThrows", "protocolsThrows", "constructorThrows"}
Closing(o) == o = "urlCloses"

\* What a call of _createSocket can do depends on what the providers are:
\* only a function can throw or act on the handle.
Possible(s, o) ==
  CASE o \in {"urlThrows", "urlCloses"} -> s.urlProvider = "function"
    [] o = "protocolsThrows" -> s.protocolsProvider = "function"
    [] OTHER -> TRUE

\* Mutant: the value of a provider function is computed once and kept.
ProviderValueCached(provider, calls) == IF provider = "function" THEN 1 ELSE 0

\* The value _createSocket passes on: a fixed value is 0, and a provider
\* function returns a new value at each call, named by the number of the call.
ProviderValue(provider, calls) == IF provider = "function" THEN calls ELSE 0

\* typeof this._urlProvider === "function" ? this._urlProvider() : this._urlProvider
CallUrlProvider(s) ==
  IF s.urlProvider = "function" THEN [s EXCEPT !.providerCalls.url = @ + 1] ELSE s

\* typeof this._protocolsProvider === "function" ? this._protocolsProvider() : ...
CallProtocolsProvider(s) ==
  IF s.protocolsProvider = "function"
  THEN [s EXCEPT !.providerCalls.protocols = @ + 1]
  ELSE s

\* The state after the providers have run, when they have not thrown: a
\* provider may call close() on the handle before it returns its value.
AfterProviders(s, o) == IF Closing(o) THEN CloseCall(s, TRUE) ELSE s

\* Mutant: the new socket keeps the transport's default binaryType.
BinaryTypeNotApplied(socket, value) == socket

\* socket.binaryType = this._binaryType;
ApplyBinaryType(socket, value) == [socket EXCEPT !.binaryType = value]

\* this._socket = this._createSocket(); the promise of
\* _awaitSocketLifecycle() is then awaited.
NewSocket(s) ==
  LET url == ProviderValue(s.urlProvider, s.providerCalls.url)
      protocols == ProviderValue(s.protocolsProvider, s.providerCalls.protocols)
      socket == ApplyBinaryType(
                  FreshSocket(url, protocols, s.reconnectOptions.connectionTimeout),
                  s.binaryType)
  IN [s EXCEPT !.socks = Append(@, socket), !.pc = "await", !.elapsed = 0]

\* ----------------------------------------------------------------- _runLoop
LoopExit(s) == [s EXCEPT !.pc = "done", !.sleepLeft = 0, !.elapsed = 0]

\* Mutant: the catch of _runLoop terminates without passing the error on.
CatchLosesCause(s, cause) ==
  LoopExit(Cleanup([s EXCEPT !.fault = "none"], "UNKNOWN_ERROR", "none"))

\* catch (error) { this._cleanup("UNKNOWN_ERROR", error) }
Catch(s, cause) == LoopExit(Cleanup([s EXCEPT !.fault = "none"], "UNKNOWN_ERROR", cause))

\* The head of one iteration: create the socket and start awaiting it.
RunIteration(s, o) ==
  LET s1 == CallUrlProvider(s)
      s2 == AfterProviders(s1, o)
      s3 == CallProtocolsProvider(s2)
  IN CASE o = "urlThrows" -> Catch(s1, ThrowCause(o))
       [] s2.fault # "none" -> Catch(s2, ThrowCause(o))
       [] Throwing(o) -> Catch(s3, ThrowCause(o))
       [] OTHER -> NewSocket(s3)

\* reconnectionDelay given as a function of the attempt index.
DelayFunction(n) == (n + 1) % (MaxDelay + 1)

\* Math.min(a, b)
Min(a, b) == IF a <= b THEN a ELSE b

\* Mutant: the default delay without its cap.
DefaultDelayUncapped(n) == 2 ^ n * DelayBase

\* options?.reconnectionDelay ?? ((n) => Math.min(2 ** n * 150, 10_000))
DefaultDelay(n) == Min(2 ^ n * DelayBase, DelayCap)

\* typeof reconnectionDelay === "number" ? reconnectionDelay : reconnectionDelay(attempt)
DelayFor(s, n) ==
  CASE s.reconnectOptions.reconnectionDelay.kind = "number" ->
         s.reconnectOptions.reconnectionDelay.ms
    [] s.reconnectOptions.reconnectionDelay.kind = "default" -> DefaultDelay(n)
    [] OTHER -> DelayFunction(n)

\* sleep(ms, signal): rejects at once when the signal is already aborted.
Sleep(s, ms) ==
  IF s.abortController.aborted
  THEN [s EXCEPT !.pc = "rejected", !.sleepLeft = 0]
  ELSE [s EXCEPT !.pc = "sleep", !.sleepLeft = ms, !.elapsed = 0]

DelayOutcomes(s) ==
  IF s.reconnectOptions.reconnectionDelay.kind \in {"number", "default"}
  THEN {"return"}
  ELSE {"return", "throws", "closes"}

\* Mutant: the retry limit compared with > instead of >=.
LimitReachedOffByOne(s, n) == n > s.reconnectOptions.maxRetries

\* attempt >= this.reconnectOptions.maxRetries
LimitReached(s, n) == n >= s.reconnectOptions.maxRetries

\* Mutant: the loop stops at the retry limit without terminating the handle.
LimitExitSilent(s) == LoopExit(s)

\* this._cleanup("RECONNECTION_LIMIT"); break;
LimitExit(s) == LoopExit(Cleanup(s, "RECONNECTION_LIMIT", "none"))

\* Mutant: a retry counted twice.
NextAttemptTwice(s) == [s EXCEPT !.attempt = @ + 2]

\* this._attempt++
NextAttempt(s) == [s EXCEPT !.attempt = @ + 1]

\* The tail of one iteration, after the awaited lifecycle has resolved.
AfterLifecycle(s, o) ==
  IF IsTerminated(s) THEN LoopExit(s)
  ELSE
    LET n == s.attempt
    IN IF LimitReached(s, n)
       THEN LimitExit(s)
       ELSE
         LET s1 == NextAttempt(s)
         IN CASE o = "throws" -> Catch(s1, "delayError")
              [] o = "closes" -> Sleep(CloseCall(s1, TRUE), DelayFor(s1, n))
              [] OTHER -> Sleep(s1, DelayFor(s1, n))

\* ------------------------------------------------------------- construction
Timeouts == {[set |-> FALSE, ms |-> 0], [set |-> TRUE, ms |-> MaxDelay]}
Delays ==
  {[kind |-> "number", ms |-> MaxDelay], [kind |-> "function", ms |-> 0]}

\* The field initializers and the constructor up to the call of _runLoop().
ConstructedWith(url, protocols, maxRetries, connectionTimeout, reconnectionDelay) ==
  [socks |-> <<>>, attempt |-> 0, messageBuffer |-> <<>>,
   abortController |-> [aborted |-> FALSE, reason |-> Undefined],
   reconnectOptions |-> [maxRetries |-> maxRetries,
                         connectionTimeout |-> connectionTimeout,
                         reconnectionDelay |-> reconnectionDelay],
   pc |-> "start", sleepLeft |-> 0, elapsed |-> 0,
   eventCount |-> [open |-> 0, close |-> 0, terminate |-> 0],
   terminateDetail |-> Undefined, sent |-> <<>>, nSends |-> 0,
   lastOp |-> "constructor",
   emitted |-> <<>>, handed |-> <<>>, fault |-> "none",
   binaryType |-> "blob", listeners |-> <<>>,
   attributeListeners |-> [type \in AttributeEventType |-> NoListener],
   onhandler |-> [type \in AttributeEventType |-> "null"],
   nApi |-> 0, invoked |-> <<>>,
   urlProvider |-> url, protocolsProvider |-> protocols,
   providerCalls |-> [url |-> 0, protocols |-> 0], args |-> NoArgs]

\* A handle whose url and protocols are both given as functions.
Constructed(maxRetries, connectionTimeout, reconnectionDelay) ==
  ConstructedWith("function", "function", maxRetries, connectionTimeout,
                  reconnectionDelay)

Is(s) ==
  /\ socks = s.socks
  /\ attempt = s.attempt
  /\ messageBuffer = s.messageBuffer
  /\ abortController = s.abortController
  /\ reconnectOptions = s.reconnectOptions
  /\ pc = s.pc
  /\ sleepLeft = s.sleepLeft
  /\ elapsed = s.elapsed
  /\ eventCount = s.eventCount
  /\ terminateDetail = s.terminateDetail
  /\ sent = s.sent
  /\ nSends = s.nSends
  /\ lastOp = s.lastOp
  /\ emitted = s.emitted
  /\ handed = s.handed
  /\ fault = s.fault
  /\ binaryType = s.binaryType
  /\ listeners = s.listeners
  /\ attributeListeners = s.attributeListeners
  /\ onhandler = s.onhandler
  /\ nApi = s.nApi
  /\ invoked = s.invoked
  /\ urlProvider = s.urlProvider
  /\ protocolsProvider = s.protocolsProvider
  /\ providerCalls = s.providerCalls
  /\ args = s.args

\* The state once `new ReconnectingWebSocket(...)` has returned: the first
\* iteration of _runLoop has run up to its first await.
InitWith(outcomes) ==
  \E maxRetries \in 0..MaxRetriesOpt, connectionTimeout \in Timeouts,
     reconnectionDelay \in Delays, o \in outcomes :
    Is(RunIteration(Constructed(maxRetries, connectionTimeout, reconnectionDelay), o))

Init == InitWith({"ok", "urlThrows", "protocolsThrows", "constructorThrows"})

\* ------------------------------------------------------------------ actions
\* A continuation of _runLoop is queued as a microtask.
MicrotaskPending == pc \in {"resolved", "rejected"}

Ids == 1..Len(socks)

\* Application: send(data); the k-th call sends payload k.
Send ==
  /\ nSends < MaxSends
  /\ \E ok \in BOOLEAN :
       Commit(SendCall([Begin("send") EXCEPT !.nSends = @ + 1], nSends + 1, ok))

\* Application: close(code, reason, permanently) with valid arguments.
CloseWith(a, permanently) ==
  /\ permanently \in BOOLEAN
  /\ Commit(CloseCall([Begin(IF permanently THEN "close" ELSE "closeTemporary")
                         EXCEPT !.args = a],
                      permanently))

\* Application: close(undefined, undefined, permanently).
Close(permanently) == CloseWith(NoArgs, permanently)

\* Transport: connection id has opened; its send() throws on buffer entry
\* failAt (failAt beyond the buffer: on none).
TOpenWith(id, failAt) ==
  /\ ~MicrotaskPending
  /\ socks[id].readyState = CONNECTING
  /\ failAt \in 1..(Len(messageBuffer) + 1)
  /\ Commit(DispatchOpen([Begin("open") EXCEPT !.socks[id].readyState = OPEN],
                         id, failAt))

\* Transport: connection id has opened.
TOpen(id) == \E failAt \in 1..(Len(messageBuffer) + 1) : TOpenWith(id, failAt)

\* Transport: a message has arrived on connection id.
TMessage(id) ==
  /\ ~MicrotaskPending
  /\ socks[id].readyState = OPEN
  /\ Commit(DispatchMessage(Begin("message"), id))

\* Transport: an error on connection id.
TError(id) ==
  /\ ~MicrotaskPending
  /\ socks[id].readyState # CLOSED
  /\ Commit(DispatchError(Begin("error"), id))

\* Transport: connection id has closed.
TCloseWith(id, e) ==
  /\ ~MicrotaskPending
  /\ socks[id].readyState # CLOSED
  /\ Commit(DispatchClose([Begin("closed") EXCEPT !.socks[id].readyState = CLOSED],
                          id, e.code, e.reason, e.wasClean))

TClose(id) == \E e \in NativeCloses : TCloseWith(id, e)

\* The timer callback of createSocketWithTimeout for connection id.
ConnectTimeout(id) ==
  /\ ~MicrotaskPending
  /\ socks[id].timer = "armed"
  /\ socks[id].left = 0
  /\ LET s0 == [Begin("timeout") EXCEPT !.socks[id].timer = "off"]
         wasConnecting == s0.socks[id].readyState = CONNECTING
         s1 == SocketClose(s0, id)
     IN Commit(IF wasConnecting
               THEN DispatchClose(s1, id, TimeoutCode, "Timeout", FALSE)
               ELSE s1)

\* One unit of time passes on every pending timer.
TimerPending ==
  \/ pc = "sleep" /\ sleepLeft > 0
  \/ \E id \in Ids : socks[id].timer = "armed" /\ socks[id].left > 0

Tick ==
  /\ ~MicrotaskPending
  /\ TimerPending
  /\ Commit([Begin("tick") EXCEPT
              !.sleepLeft = IF @ > 0 THEN @ - 1 ELSE 0,
              !.elapsed = IF pc = "sleep" /\ @ < MaxDelay THEN @ + 1 ELSE @,
              !.socks = [id \in Ids |->
                           [socks[id] EXCEPT !.left = IF @ > 0 THEN @ - 1 ELSE 0]]])

\* Microtask: _runLoop continues after `await this._awaitSocketLifecycle()`.
LoopContinueWith(o) ==
  /\ pc = "resolved"
  /\ o \in DelayOutcomes(St)
  /\ Commit(AfterLifecycle(Begin("loop"), o))

LoopContinue == \E o \in {"return", "throws", "closes"} : LoopContinueWith(o)

\* Microtask: the rejected sleep() throws into the catch of _runLoop.
LoopCatch ==
  /\ pc = "rejected"
  /\ Commit(Catch(Begin("catch"), "abortReason"))

\* The connections a handle makes are bounded: a handle that never opens
\* makes maxRetries + 1 of them.
ConnectionCap ==
  IF reconnectOptions.maxRetries >= MaxConn
  THEN reconnectOptions.maxRetries + 1
  ELSE MaxConn

\* The timer of sleep() fires and _runLoop starts its next iteration.
SleepResolveWith(o) ==
  /\ pc = "sleep"
  /\ sleepLeft = 0
  /\ Len(socks) < ConnectionCap
  /\ Possible(St, o)
  /\ Commit(RunIteration(Begin("reconnect"), o))

SleepResolve == \E o \in CreateOutcomes : SleepResolveWith(o)

\* Application: addEventListener / removeEventListener on the handle with a
\* function of its own.
Callbacks == {[handler |-> "f", wrapper |-> 0]}
Handlers == {"g", "h"}
BinaryTypes == {"blob", "arraybuffer"}

AddEventListener(type, callback, capture, once) ==
  /\ nApi < MaxApi
  /\ Commit([Begin("addEventListener") EXCEPT
              !.nApi = @ + 1,
              !.listeners = AddListener(@, type, callback, capture, once)])

RemoveEventListener(type, callback, capture) ==
  /\ nApi < MaxApi
  /\ Commit([Begin("removeEventListener") EXCEPT
              !.nApi = @ + 1,
              !.listeners = RemoveListener(@, type, callback, capture)])

\* Application: rws.on<type> = handler.
AssignOnHandler(type, handler) ==
  /\ nApi < MaxApi
  /\ Commit(SetOnHandler(Begin("onhandler"), type, handler))

\* Application: rws.binaryType = value.
AssignBinaryType(value) ==
  /\ nApi < MaxApi
  /\ Commit(SetBinaryType([Begin("binaryType") EXCEPT !.nApi = @ + 1], value))

Next ==
  \/ Send
  \/ Close(TRUE)
  \/ Close(FALSE)
  \/ \E id \in Ids : TOpen(id)
  \/ \E id \in Ids : TMessage(id)
  \/ \E id \in Ids : TError(id)
  \/ \E id \in Ids : TClose(id)
  \/ \E id \in Ids : ConnectTimeout(id)
  \/ Tick
  \/ LoopContinue
  \/ LoopCatch
  \/ SleepResolve

Spec == Init /\ [][Next]_vars

\* ------------------------------------------------------------------- sanity
\* The lifecycle listeners are attached to the current socket only, and only
\* while _runLoop awaits it.
AttachedIsCurrent ==
  \A id \in Ids : socks[id].attached => id = Len(socks) /\ pc = "await"

\* =================================================================== claims
Terminated == abortController.aborted
NotTerminated == ~abortController.aborted

\* Number of events of a type among those a step dispatched.
Count(events, type) == Cardinality({i \in DOMAIN events : events[i].type = type})

\* C1: a handle emits at most one terminate event in its lifetime, and
\* exactly one in the step in which it becomes terminated (in the
\* constructor too), whatever the cause.
C1_OneTerminateEvent ==
  /\ eventCount.terminate = (IF Terminated THEN 1 ELSE 0)
  /\ Count(emitted, "terminate") = eventCount.terminate
  /\ [][/\ eventCount'.terminate <= 1
        /\ eventCount'.terminate = eventCount.terminate + Count(emitted', "terminate")
        /\ Count(emitted', "terminate") = (IF NotTerminated /\ Terminated' THEN 1 ELSE 0)]_vars

\* C1 witness: the sleep() that a permanent close() cancelled has thrown
\* into the catch of _runLoop, which asks for a second termination.
C1_Witness ==
  /\ lastOp = "catch"
  /\ Terminated
  /\ abortController.reason.code = "TERMINATED_BY_USER"
  /\ eventCount.terminate = 1

\* C2: termination is one-way and its cause is set once: isTerminated holds
\* exactly when terminationReason is set, the terminate event carried that
\* reason, and neither changes afterwards.
C2_TerminationOneWay ==
  /\ Terminated <=> abortController.reason # Undefined
  /\ terminateDetail = abortController.reason
  /\ [][/\ Terminated' <=> abortController'.reason # Undefined
        /\ abortController'.reason.code \in ErrorCodes \cup {"undefined"}
        /\ terminateDetail' = abortController'.reason
        /\ \A i \in DOMAIN emitted' :
             emitted'[i].type = "terminate" => emitted'[i].detail = abortController'.reason
        /\ Terminated => Terminated' /\ abortController'.reason = abortController.reason]_vars

\* C2 witness: the transport reports the close of a connection after the
\* application has terminated the handle.
C2_Witness ==
  /\ Terminated
  /\ lastOp = "closed"
  /\ abortController.reason = ReconnectingWebSocketError("TERMINATED_BY_USER", "none")
  /\ terminateDetail = abortController.reason

\* C3: after the handle is terminated no new underlying connection is ever
\* created: no step that starts or ends with the handle terminated adds a
\* connection (a step that both terminates and creates has created the
\* connection after the termination, as nothing follows the creation in it).
C3_NoConnectionAfterTermination ==
  [][(Terminated \/ Terminated') => Len(socks') = Len(socks)]_vars

\* ------------------------------------------- scenario: a target that always fails
\* No connection opens, the application only sends, no callback throws, and
\* the target closes every connection it is offered.
InitFailing == InitWith({"ok"})

NextFailing ==
  \/ Send
  \/ \E id \in Ids : TError(id)
  \/ \E id \in Ids : TClose(id)
  \/ \E id \in Ids : ConnectTimeout(id)
  \/ Tick
  \/ LoopContinueWith("return")
  \/ SleepResolveWith("ok")

SpecFailing ==
  /\ InitFailing
  /\ [][NextFailing]_vars
  /\ WF_vars(\E id \in Ids : TClose(id))
  /\ WF_vars(Tick)
  /\ WF_vars(LoopContinueWith("return"))
  /\ WF_vars(SleepResolveWith("ok"))

RetryLimitReached ==
  /\ abortController.reason = ReconnectingWebSocketError("RECONNECTION_LIMIT", "none")
  /\ Len(socks) = reconnectOptions.maxRetries + 1
  /\ eventCount.close = reconnectOptions.maxRetries + 1
  /\ eventCount.terminate = 1

\* C4: with maxRetries = N, no close() call and no connection ever opening,
\* the handle creates exactly N + 1 connections and emits exactly N + 1
\* close events, then one terminate event with cause RECONNECTION_LIMIT, and
\* no connection afterwards.
C4_RetryLimit ==
  /\ [](/\ Len(socks) <= reconnectOptions.maxRetries + 1
        /\ eventCount.close <= Len(socks)
        /\ NotTerminated => eventCount.terminate = 0
        /\ Terminated => RetryLimitReached)
  /\ <>[](Terminated /\ RetryLimitReached)

\* C4 witness: maxRetries = 2, three connections failed, then terminate.
C4_Witness ==
  /\ reconnectOptions.maxRetries = 2
  /\ Terminated
  /\ Len(socks) = 3
  /\ eventCount.close = 3
  /\ Count(emitted, "terminate") = 1

\* delay-policy(n): the constant delay, or the delay function applied to n.
PolicyDelay(n) ==
  IF reconnectOptions.reconnectionDelay.kind = "number"
  THEN reconnectOptions.reconnectionDelay.ms
  ELSE DelayFunction(n)

\* The part of C5 about the delay: the sleep that follows a close at attempt
\* counter n is armed for delay-policy(n), and a connection is created only
\* by the loop, one at a time, once that much time has passed.
C5_DelayRespected ==
  [][/\ (pc = "resolved" /\ pc' = "sleep") =>
          attempt < reconnectOptions.maxRetries /\ sleepLeft' = PolicyDelay(attempt)
     /\ Len(socks') # Len(socks) =>
          /\ Len(socks') = Len(socks) + 1
          /\ pc = "sleep"
          /\ elapsed >= PolicyDelay(attempt - 1)
          /\ NotTerminated]_vars

\* C5: for n < maxRetries a close at attempt counter n is followed by one new
\* connection, not before delay-policy(n) has elapsed; if the handle is
\* terminated in the interim, no connection is created.
C5_ReconnectAfterDelay ==
  [][/\ (pc = "resolved" /\ pc' = "sleep") =>
          attempt < reconnectOptions.maxRetries /\ sleepLeft' = PolicyDelay(attempt)
     /\ Len(socks') # Len(socks) =>
          /\ Len(socks') = Len(socks) + 1
          /\ pc = "sleep"
          /\ elapsed >= PolicyDelay(attempt - 1)
          /\ NotTerminated /\ NotTerminated']_vars

\* C6: every open notification of the current connection sets the attempt
\* counter to 0, whatever its prior value.
C6_OpenResetsAttempt ==
  [][(/\ lastOp' = "open"
      /\ socks[Len(socks)].readyState = CONNECTING
      /\ socks'[Len(socks)].readyState # CONNECTING) => attempt' = 0]_vars

\* C6 witness: with maxRetries = 2 the third connection is the first to
\* open, so the counter was 2 when it opened.
C6_Witness ==
  /\ lastOp = "open"
  /\ reconnectOptions.maxRetries = 2
  /\ Len(socks) = 3
  /\ eventCount.close = 2
  /\ attempt = 0

IsPrefix(a, b) == Len(a) <= Len(b) /\ SubSeq(b, 1, Len(a)) = a
Increasing(q) == \A i, j \in DOMAIN q : i < j => q[i] < q[j]

\* C7: while the handle is not terminated, the payloads accepted by the
\* transport followed by the buffered ones are the payloads of the send
\* calls in call order, each once: a buffered send appends to the end, a flush
\* moves a prefix of the buffer to the transport and keeps exactly the rest
\* (from the entry whose send threw onward), and no other step touches them.
C7_BufferedInOrder ==
  /\ Increasing(sent \o messageBuffer)
  /\ [][NotTerminated' =>
        /\ Increasing(sent' \o messageBuffer')
        /\ IsPrefix(sent, sent')
        /\ lastOp' # "send" => sent' \o messageBuffer' = sent \o messageBuffer
        /\ (lastOp' = "send" /\ socks[Len(socks)].readyState # OPEN) =>
             sent' = sent /\ messageBuffer' = Append(messageBuffer, nSends')
        /\ (lastOp' = "open" /\ Count(emitted', "open") = 0) =>
             /\ handed' # <<>>
             /\ handed'[Len(handed')].result = "SendError"
             /\ messageBuffer' # <<>>
             /\ Head(messageBuffer') = handed'[Len(handed')].data
        /\ (lastOp' = "open" /\ Count(emitted', "open") = 1) =>
             messageBuffer' = <<>>]_vars

\* C7 witness: a flush has failed at its second entry; payload 1 has been
\* sent and payload 2 is still buffered.
C7_Witness ==
  /\ NotTerminated
  /\ lastOp = "open"
  /\ Len(handed) = 2
  /\ handed[2].result = "SendError"
  /\ sent = <<1>>
  /\ messageBuffer = <<2>>

\* C8: send(payload) on a non-terminated handle appends the payload to the
\* end of the buffer and hands nothing to the transport when the current
\* connection is not open; when it is open the payload is handed to that
\* connection at once and the buffer is left as it is.
C8_SendBuffersUnlessOpen ==
  [][(lastOp' = "send" /\ NotTerminated) =>
       /\ Len(socks) > 0
       /\ IF socks[Len(socks)].readyState # OPEN
          THEN /\ messageBuffer' = Append(messageBuffer, nSends')
               /\ handed' = <<>>
               /\ sent' = sent
               /\ fault' = "none"
          ELSE /\ messageBuffer' = messageBuffer
               /\ Len(handed') = 1
               /\ handed'[1].sock = Len(socks)
               /\ handed'[1].data = nSends']_vars

\* C8 witness: a payload sent while the connection is closing is buffered.
C8_Witness ==
  /\ lastOp = "send"
  /\ NotTerminated
  /\ socks[Len(socks)].readyState = CLOSING
  /\ messageBuffer = <<1>>
  /\ handed = <<>>

\* C9: send(payload) on a terminated handle never appends to the buffer: the
\* payload is forwarded directly to the last underlying connection, so the
\* caller observes what the transport does with it, and the buffer stays
\* empty.
C9_SendAfterTermination ==
  [][(lastOp' = "send" /\ Terminated) =>
       /\ messageBuffer' = <<>>
       /\ Len(handed') = 1
       /\ handed'[1].sock = Len(socks)
       /\ handed'[1].data = nSends'
       /\ fault' = (IF Throws(handed'[1].result) THEN handed'[1].result ELSE "none")]_vars

\* The part of C9 that holds: once a connection has been created, a send on
\* the terminated handle goes to the current connection and is not buffered.
C9_WithConnection ==
  [][(lastOp' = "send" /\ Terminated /\ Len(socks) > 0) =>
       /\ messageBuffer' = <<>>
       /\ Len(handed') = 1
       /\ handed'[1].sock = Len(socks)
       /\ handed'[1].data = nSends'
       /\ handed'[1].result = SendResult(socks[Len(socks)].readyState, handed'[1].result # "SendError")
       /\ fault' = (IF Throws(handed'[1].result) THEN handed'[1].result ELSE "none")]_vars

\* C10: whenever the handle is terminated the outbound buffer is empty.
C10_TerminatedBufferEmpty == Terminated => messageBuffer = <<>>

\* C10 witness: a permanent close() during the first connect, with two
\* payloads buffered, has discarded them.
C10_Witness ==
  /\ lastOp = "close"
  /\ Terminated
  /\ Len(socks) = 1
  /\ nSends = 2
  /\ sent = <<>>
  /\ Len(emitted) = 2
  /\ emitted[1].type = "terminate"
  /\ emitted[2].type = "close"
  /\ messageBuffer = <<>>

TerminatedByUser ==
  /\ Terminated
  /\ abortController.reason = ReconnectingWebSocketError("TERMINATED_BY_USER", "none")

\* C11: close() with permanently = true on a handle that is not terminated
\* emits exactly one terminate event with cause TERMINATED_BY_USER inside the
\* call, leaves the handle terminated and halts reconnection: no connection
\* is created in or after a step in which close() has terminated the handle,
\* wherever the call came from (the application or a callback of the handle).
C11_PermanentCloseHalts ==
  /\ [][(NotTerminated /\ lastOp' = "close") =>
          /\ fault' = "none"
          /\ Count(emitted', "terminate") = 1
          /\ TerminatedByUser']_vars
  /\ [][(NotTerminated /\ TerminatedByUser') => Count(emitted', "terminate") = 1]_vars
  /\ [][(TerminatedByUser \/ TerminatedByUser') => Len(socks') = Len(socks)]_vars

\* The part of C11 that holds: a close() that is not made from inside the
\* URL or protocols provider terminates the handle within the call, and no
\* step after a termination by close() creates a connection.
C11_OutsideProviders ==
  /\ [][(NotTerminated /\ lastOp' = "close") =>
          /\ fault' = "none"
          /\ Count(emitted', "terminate") = 1
          /\ TerminatedByUser'
          /\ Len(socks') = Len(socks)]_vars
  /\ [][(NotTerminated /\ TerminatedByUser') => Count(emitted', "terminate") = 1]_vars
  /\ [][TerminatedByUser => Len(socks') = Len(socks)]_vars

\* ------------------------------ scenario: the application only closes temporarily
\* The application calls close(code, reason, false) at any time, no callback
\* throws or closes, and the transport and the timers are fair: a connection
\* that is not closed is eventually reported closed, time passes and the
\* continuations of _runLoop run.
InitTemporary == InitWith({"ok"})

NextTemporary ==
  \/ Close(FALSE)
  \/ \E id \in Ids : TOpen(id)
  \/ \E id \in Ids : TError(id)
  \/ \E id \in Ids : TClose(id)
  \/ \E id \in Ids : ConnectTimeout(id)
  \/ Tick
  \/ LoopContinueWith("return")
  \/ SleepResolveWith("ok")

SpecTemporary ==
  /\ InitTemporary
  /\ [][NextTemporary]_vars
  /\ WF_vars(\E id \in Ids : TClose(id))
  /\ WF_vars(Tick)
  /\ WF_vars(LoopContinueWith("return"))
  /\ WF_vars(SleepResolveWith("ok"))

LimitTerminated ==
  /\ Terminated
  /\ abortController.reason = ReconnectingWebSocketError("RECONNECTION_LIMIT", "none")

\* C12 as stated: close(code, reason, false) emits no terminate event and
\* does not terminate the handle, the current connection is closed, and the
\* loop resumes with another connection attempt: the continuation of
\* _runLoop that follows the call goes on to wait out the delay.
C12_TemporaryCloseReconnects ==
  /\ [][(NotTerminated /\ lastOp' = "closeTemporary") =>
          /\ NotTerminated'
          /\ Count(emitted', "terminate") = 0
          /\ socks'[Len(socks')].readyState \in {CLOSING, CLOSED}]_vars
  /\ [][(lastOp = "closeTemporary" /\ NotTerminated /\ lastOp' = "loop") =>
          /\ NotTerminated'
          /\ pc' = "sleep"]_vars

\* C12 amended: close(code, reason, false) on a handle that is not terminated
\* emits no terminate event and does not terminate it within the call; it
\* closes the current connection, emitting a close event with code 1006 at
\* once if the connection was connecting; the loop then goes on as after any
\* close: it waits out the delay for another attempt when the attempt counter
\* is below maxRetries and terminates with RECONNECTION_LIMIT otherwise, and
\* in either case it eventually does one of the two.
C12_TemporaryCloseKeepsLoop ==
  /\ [][(NotTerminated /\ lastOp' = "closeTemporary") =>
          /\ fault' = "none"
          /\ NotTerminated'
          /\ Count(emitted', "terminate") = 0
          /\ Len(socks') = Len(socks)
          /\ socks'[Len(socks')].readyState \in {CLOSING, CLOSED}
          /\ attempt' = attempt
          /\ IF socks[Len(socks)].readyState = CONNECTING
             THEN emitted' = <<CloseEvent(AbnormalClosure, "", FALSE)>> /\ pc' = "resolved"
             ELSE emitted' = <<>> /\ pc' = pc]_vars
  /\ [][(lastOp = "closeTemporary" /\ NotTerminated /\ lastOp' = "loop") =>
          IF attempt < reconnectOptions.maxRetries
          THEN NotTerminated' /\ pc' = "sleep" /\ attempt' = attempt + 1
          ELSE LimitTerminated' /\ pc' = "done"]_vars
  /\ \A k \in 1..(MaxConn - 1) :
       (lastOp = "closeTemporary" /\ NotTerminated /\ Len(socks) = k)
          ~> (Len(socks) > k \/ LimitTerminated)

\* C12 witness: the loop has created the next connection after a temporary
\* close() of an open connection.
C12_Witness ==
  /\ lastOp = "reconnect"
  /\ NotTerminated
  /\ Len(socks) = 2
  /\ socks[1].readyState = CLOSED
  /\ eventCount.open = 1
  /\ eventCount.close = 1
  /\ eventCount.terminate = 0

\* C13: termination is idempotent: close(), or the loop reaching _cleanup
\* again, on a handle that is already terminated raises no fault, emits no
\* terminate event and leaves the cause, the buffer and the attempt counter
\* as they were, also when no connection was ever created.
C13_TerminationIdempotent ==
  [][(Terminated /\ lastOp' \in {"close", "catch", "loop"}) =>
       /\ fault' = "none"
       /\ Count(emitted', "terminate") = 0
       /\ abortController' = abortController
       /\ messageBuffer' = messageBuffer
       /\ attempt' = attempt]_vars

\* The part of C13 that holds: the same, once a connection has been created.
C13_WithConnection ==
  [][(Terminated /\ Len(socks) > 0 /\ lastOp' \in {"close", "catch", "loop"}) =>
       /\ fault' = "none"
       /\ Count(emitted', "terminate") = 0
       /\ abortController' = abortController
       /\ messageBuffer' = messageBuffer
       /\ attempt' = attempt]_vars

\* C14: when the URL provider, the protocols provider, the WebSocket
\* constructor or the delay policy throws on any attempt of a handle that is
\* not terminated, the handle terminates with UNKNOWN_ERROR carrying the
\* thrown value, exactly one terminate event is emitted, the loop ends and no
\* connection is created in that step or afterwards.
C14_ThrowTerminates ==
  /\ (socks = <<>>) =>
       /\ Terminated
       /\ abortController.reason.code = "UNKNOWN_ERROR"
       /\ abortController.reason.cause \in {"urlError", "protocolsError", "constructorError"}
       /\ Count(emitted, "terminate") = 1
       /\ pc = "done"
  /\ [][\A o \in {"urlThrows", "protocolsThrows", "constructorThrows"} :
          (NotTerminated /\ SleepResolveWith(o)) =>
             /\ Terminated'
             /\ abortController'.reason = ReconnectingWebSocketError("UNKNOWN_ERROR", ThrowCause(o))
             /\ Count(emitted', "terminate") = 1
             /\ terminateDetail' = abortController'.reason
             /\ Len(socks') = Len(socks)
             /\ pc' = "done"]_vars
  /\ [][(NotTerminated /\ ~LimitReached(St, attempt) /\ LoopContinueWith("throws")) =>
          /\ Terminated'
          /\ abortController'.reason = ReconnectingWebSocketError("UNKNOWN_ERROR", "delayError")
          /\ Count(emitted', "terminate") = 1
          /\ terminateDetail' = abortController'.reason
          /\ Len(socks') = Len(socks)
          /\ pc' = "done"]_vars
  /\ [][abortController.reason.code = "UNKNOWN_ERROR" => Len(socks') = Len(socks)]_vars

\* C14 witness: the WebSocket constructor has thrown on a reconnection.
C14_Witness ==
  /\ lastOp = "reconnect"
  /\ Len(socks) >= 1
  /\ Terminated
  /\ abortController.reason = ReconnectingWebSocketError("UNKNOWN_ERROR", "constructorError")
  /\ Count(emitted, "terminate") = 1

\* C15: with a connect timeout set, every connection that is still
\* connecting has its timeout armed, so it is force-closed at the deadline
\* and its attempt ends.
C15_ConnectingHasDeadline ==
  \A id \in Ids :
    (reconnectOptions.connectionTimeout.set /\ socks[id].readyState = CONNECTING)
      => socks[id].timer = "armed"

\* The part of C15 that holds: when the timeout fires on a connection that is
\* still connecting, the connection is closed and, if the loop awaits it, a
\* close with code 3008 is emitted and the awaiter resolves.
C15_TimeoutForcesClose ==
  [][\A id \in Ids :
       (ConnectTimeout(id) /\ socks[id].readyState = CONNECTING) =>
          /\ socks'[id].readyState = CLOSING
          /\ socks[id].attached =>
               /\ emitted' = <<CloseEvent(TimeoutCode, "Timeout", FALSE)>>
               /\ pc' = "resolved"
               /\ ~socks'[id].attached]_vars

\* ---------------------------------- scenario: listeners across reconnections
\* The application registers and removes listeners and assigns on* handlers
\* for one event type while connections open, carry messages, fail and close
\* and the loop reconnects; no callback throws or closes.
OneType(type) ==
  /\ \A i \in DOMAIN listeners : listeners[i].type = type
  /\ \A other \in AttributeEventType \ {type} : onhandler[other] = "null"

InitListeners ==
  /\ InitWith({"ok"})
  /\ reconnectOptions.maxRetries = MaxRetriesOpt
  /\ ~reconnectOptions.connectionTimeout.set
  /\ reconnectOptions.reconnectionDelay.kind = "function"

NextListeners ==
  \/ \E type \in AttributeEventType, callback \in Callbacks, once \in BOOLEAN :
       OneType(type) /\ AddEventListener(type, callback, FALSE, once)
  \/ \E type \in AttributeEventType, callback \in Callbacks :
       OneType(type) /\ RemoveEventListener(type, callback, FALSE)
  \/ \E type \in AttributeEventType, handler \in {"g", "null"} :
       OneType(type) /\ AssignOnHandler(type, handler)
  \/ \E id \in Ids : TOpen(id)
  \/ \E id \in Ids : TMessage(id)
  \/ \E id \in Ids : TError(id)
  \/ \E id \in Ids : TClose(id)
  \/ Tick
  \/ LoopContinueWith("return")
  \/ SleepResolveWith("ok")

SpecListeners == InitListeners /\ [][NextListeners]_vars

\* Number of times a callback was run for events of a type in a step.
Runs(calls, type, callback) ==
  Cardinality({i \in DOMAIN calls : calls[i].type = type /\ calls[i].callback = callback})

Registrations(registry, type, callback, capture) ==
  Cardinality({i \in DOMAIN registry : SameListener(registry[i], type, callback, capture)})

Registered(registry, l) ==
  \E i \in DOMAIN registry : registry[i] = l

\* Times a callback is due for the events a step dispatched: for each entry
\* of the list holding it, once per event of the type, and once in all if
\* the entry is a once entry.
Due(registry, events, type, callback) ==
  LET n == Count(events, type)
      entries(once) ==
        Cardinality({i \in DOMAIN registry :
                       /\ registry[i].type = type
                       /\ registry[i].callback = callback
                       /\ registry[i].once = once})
  IN n * entries(FALSE) + (IF n > 0 THEN 1 ELSE 0) * entries(TRUE)

ApiStep(op) == op \in {"addEventListener", "removeEventListener", "onhandler", "binaryType"}

\* C16: a listener registered with once on the handle is invoked for the
\* first public event of its type and removed in that step; only the
\* application can register it again, a new attempt never does.
C16_OnceFiresOnce ==
  /\ [][\A i \in DOMAIN listeners :
          LET l == listeners[i]
          IN (l.once /\ ~ApiStep(lastOp')) =>
               IF Count(emitted', l.type) = 0
               THEN Registered(listeners', l) /\ Runs(invoked', l.type, l.callback) = 0
               ELSE /\ Registrations(listeners', l.type, l.callback, l.capture) = 0
                    /\ Runs(invoked', l.type, l.callback)
                         = Due(listeners, emitted', l.type, l.callback)]_vars
  /\ [][\A i \in DOMAIN invoked' :
          \E j \in DOMAIN listeners :
             listeners[j].type = invoked'[i].type /\ listeners[j].callback = invoked'[i].callback]_vars
  /\ [][(\E i \in DOMAIN listeners' : ~Registered(listeners, listeners'[i]))
          => lastOp' \in {"addEventListener", "onhandler"}]_vars

\* C16 witness: a close event of the second attempt is emitted after a once
\* listener for close was used up by the close of the first attempt.
C16_Witness ==
  /\ lastOp = "closed"
  /\ Len(socks) = 2
  /\ eventCount.close = 2
  /\ nApi = 1
  /\ listeners = <<>>
  /\ invoked = <<>>
  /\ Count(emitted, "close") = 1

\* C17: a listener registered on the handle (addEventListener without once,
\* or an on* attribute) stays registered across reconnections until the
\* application removes it, and it is invoked for every public event of its
\* type, which the handle emits for the open, message, error and close of
\* the connection of every attempt.
C17_ListenersPersist ==
  /\ [][\A i \in DOMAIN listeners :
          LET l == listeners[i]
          IN (~l.once /\ ~ApiStep(lastOp')) =>
               /\ Registered(listeners', l)
               /\ Runs(invoked', l.type, l.callback)
                    = Due(listeners, emitted', l.type, l.callback)]_vars
  /\ [][\A id \in Ids :
          socks[id].attached =>
            /\ (lastOp' = "open" /\ TOpen(id)) => emitted' = <<Event("open")>>
            /\ (lastOp' = "message" /\ TMessage(id)) => emitted' = <<Event("message")>>
            /\ (lastOp' = "error" /\ TError(id)) => emitted' = <<Event("error")>>
            /\ (lastOp' = "closed" /\ TClose(id)) =>
                 Count(emitted', "close") = 1 /\ Len(emitted') = 1]_vars

\* C17 witness: a listener registered during the first attempt is invoked
\* for a message of the third connection.
C17_Witness ==
  /\ lastOp = "message"
  /\ Len(socks) = 3
  /\ nApi = 1
  /\ invoked = <<[type |-> "message", callback |-> [handler |-> "f", wrapper |-> 0]]>>
  /\ Len(listeners) = 1
  /\ ~listeners[1].once

\* ------------------------------- scenario: the listener list of one attempt
\* Every kind of registration, removal and on* assignment for one event
\* type, during the first connection: it opens, carries messages, fails
\* and closes.
NextRegistry ==
  \/ \E type \in AttributeEventType, callback \in Callbacks, capture, once \in BOOLEAN :
       OneType(type) /\ AddEventListener(type, callback, capture, once)
  \/ \E type \in AttributeEventType, callback \in Callbacks, capture \in BOOLEAN :
       OneType(type) /\ RemoveEventListener(type, callback, capture)
  \/ \E type \in AttributeEventType, handler \in Handlers \cup {"null"} :
       OneType(type) /\ AssignOnHandler(type, handler)
  \/ \E id \in Ids : TOpen(id)
  \/ \E id \in Ids : TMessage(id)
  \/ \E id \in Ids : TError(id)
  \/ \E id \in Ids : TClose(id)

SpecRegistry == InitListeners /\ [][NextRegistry]_vars

NoDuplicates(registry) ==
  \A i, j \in DOMAIN registry :
    SameListener(registry[j], registry[i].type, registry[i].callback, registry[i].capture)
      => i = j

\* C18: registering the same (type, callback, capture) any number of times
\* leaves exactly one registration, so the callback runs once per event;
\* removing it once leaves none; adding what is registered or removing what
\* is not changes nothing; other registrations are never affected.
C18_RegistrationIdempotent ==
  /\ NoDuplicates(listeners)
  /\ [][NoDuplicates(listeners')]_vars
  /\ [][\A type \in AttributeEventType, callback \in Callbacks, capture, once \in BOOLEAN :
          (lastOp' = "addEventListener" /\ AddEventListener(type, callback, capture, once)) =>
            /\ Registrations(listeners', type, callback, capture) = 1
            /\ Registrations(listeners, type, callback, capture) = 1 => listeners' = listeners
            /\ \A i \in DOMAIN listeners : Registered(listeners', listeners[i])]_vars
  /\ [][\A type \in AttributeEventType, callback \in Callbacks, capture \in BOOLEAN :
          (lastOp' = "removeEventListener" /\ RemoveEventListener(type, callback, capture)) =>
            /\ Registrations(listeners', type, callback, capture) = 0
            /\ Registrations(listeners, type, callback, capture) = 0 => listeners' = listeners
            /\ \A i \in DOMAIN listeners :
                 ~SameListener(listeners[i], type, callback, capture)
                   => Registered(listeners', listeners[i])]_vars
  /\ [][\A i \in DOMAIN listeners :
          Runs(invoked', listeners[i].type, listeners[i].callback)
            = Due(listeners, emitted', listeners[i].type, listeners[i].callback)]_vars

\* C18 witness: the second of two addEventListener calls found the
\* combination registered, and the one registration then ran once for an event.
C18_Witness ==
  /\ nApi = 2
  /\ Len(listeners) = 1
  /\ ~listeners[1].once
  /\ Len(invoked) = 1
  /\ invoked[1].callback = listeners[1].callback
  /\ Len(emitted) = 1

AttributeEntries(registry, type) ==
  {i \in DOMAIN registry : registry[i].type = type /\ registry[i].callback.wrapper > 0}

\* The attribute slot of a type: at most one registration, which is the
\* arrow function around the handler last assigned.
AttributeSlot(registry, slots, handlers, type) ==
  LET entries == AttributeEntries(registry, type)
  IN /\ Cardinality(entries) = (IF handlers[type] = "null" THEN 0 ELSE 1)
     /\ handlers[type] = "null" <=> slots[type] = NoListener
     /\ \A i \in entries :
          /\ registry[i].callback = slots[type]
          /\ registry[i].callback.handler = handlers[type]
          /\ ~registry[i].once
          /\ ~registry[i].capture

\* C19: each of open, message, error and close has at most one attribute
\* registration at any time: assigning a handler replaces the registration
\* of the previous one, assigning null removes it, the getter returns what
\* was assigned last, and an event of the type runs the handler assigned
\* last exactly once and no earlier handler.
C19_OneAttributeHandler ==
  /\ \A type \in AttributeEventType :
       AttributeSlot(listeners, attributeListeners, onhandler, type)
  /\ [][\A type \in AttributeEventType :
          AttributeSlot(listeners', attributeListeners', onhandler', type)]_vars
  /\ [][\A type \in AttributeEventType, handler \in Handlers \cup {"null"} :
          (lastOp' = "onhandler" /\ AssignOnHandler(type, handler)) =>
            /\ onhandler'[type] = handler
            /\ \A i \in DOMAIN listeners :
                 listeners[i].callback.wrapper = 0 => Registered(listeners', listeners[i])]_vars
  /\ [][\A type \in AttributeEventType :
          /\ onhandler[type] # "null" =>
               Runs(invoked', type, attributeListeners[type]) = Count(emitted', type)
          /\ \A i \in DOMAIN invoked' :
               (invoked'[i].type = type /\ invoked'[i].callback.wrapper > 0)
                 => invoked'[i].callback = attributeListeners[type]]_vars

\* C19 witness: a close event runs the handler of the latest of three
\* assignments to onclose.
C19_Witness ==
  /\ lastOp = "closed"
  /\ nApi = 3
  /\ listeners = <<[type |-> "close", callback |-> [handler |-> "h", wrapper |-> 3],
                    capture |-> FALSE, once |-> FALSE]>>
  /\ onhandler["close"] = "h"
  /\ invoked = <<[type |-> "close", callback |-> [handler |-> "h", wrapper |-> 3]]>>

\* ------------------------------- scenario: binaryType across reconnections
\* The application assigns binaryType at any time while connections open,
\* carry messages and close and the loop reconnects.
NextBinary ==
  \/ \E value \in BinaryTypes : AssignBinaryType(value)
  \/ \E id \in Ids : TOpen(id)
  \/ \E id \in Ids : TMessage(id)
  \/ \E id \in Ids : TClose(id)
  \/ Tick
  \/ LoopContinueWith("return")
  \/ SleepResolveWith("ok")

SpecBinary == InitListeners /\ [][NextBinary]_vars

CurrentBinaryType == socks[Len(socks)].binaryType

\* C20: the current connection always has the handle's binaryType: a new
\* connection gets it when it is created, an assignment on the handle sets
\* the preference and the current connection, and nothing else changes the
\* preference, so it survives reconnections.
C20_BinaryTypeApplied ==
  /\ CurrentBinaryType = binaryType
  /\ [][/\ socks'[Len(socks')].binaryType = binaryType'
        /\ lastOp' # "binaryType" => binaryType' = binaryType
        /\ \A value \in BinaryTypes :
             (lastOp' = "binaryType" /\ AssignBinaryType(value)) =>
                /\ binaryType' = value
                /\ socks'[Len(socks')].binaryType = value
                /\ fault' = "none"
        /\ Len(socks') > Len(socks) =>
             /\ socks'[Len(socks')].readyState = CONNECTING
             /\ socks'[Len(socks')].binaryType = binaryType]_vars

\* C20 witness: a connection created after binaryType was changed carries
\* the new value while it is still connecting.
C20_Witness ==
  /\ lastOp = "reconnect"
  /\ Len(socks) = 2
  /\ binaryType = "arraybuffer"
  /\ socks[2].readyState = CONNECTING
  /\ socks[2].binaryType = "arraybuffer"

\* --------------------------------------- scenario: url and protocols providers
\* The url and the protocols are each given as a value or as a function;
\* connections open and close, and every call of _createSocket can end in
\* any way its providers allow.
Providers == {"value", "function"}

InitProviders ==
  \E url \in Providers, protocols \in Providers, o \in CreateOutcomes \ {"urlCloses"} :
    LET s == ConstructedWith(url, protocols, MaxRetriesOpt, [set |-> FALSE, ms |-> 0],
                             [kind |-> "number", ms |-> MaxDelay])
    IN Possible(s, o) /\ Is(RunIteration(s, o))

NextProviders ==
  \/ \E id \in Ids : TOpen(id)
  \/ \E id \in Ids : TClose(id)
  \/ Tick
  \/ LoopContinueWith("return")
  \/ SleepResolve

SpecProviders == InitProviders /\ [][NextProviders]_vars

\* The number of calls a provider has had when n connections were made and
\* the call after them threw or not.
CallsFor(provider, n, thrown) ==
  IF provider = "function" THEN n + (IF thrown THEN 1 ELSE 0) ELSE 0

CreateFailed ==
  /\ Terminated
  /\ TerminationReason(St).code = "UNKNOWN_ERROR"
  /\ TerminationReason(St).cause \in {"urlError", "protocolsError", "constructorError"}

\* C21: a provider function is called once for the first connection and once
\* for every reconnection, and never otherwise; the n-th connection is made
\* from the values the n-th calls returned, and a fixed value is passed as is.
C21_ProvidersReevaluated ==
  /\ providerCalls.url = CallsFor(urlProvider, Len(socks), CreateFailed)
  /\ providerCalls.protocols =
       CallsFor(protocolsProvider, Len(socks),
                CreateFailed /\ TerminationReason(St).cause # "urlError")
  /\ \A id \in Ids :
       /\ socks[id].url = (IF urlProvider = "function" THEN id ELSE 0)
       /\ socks[id].protocols = (IF protocolsProvider = "function" THEN id ELSE 0)

\* C21 witness: the third connection of a handle with a url function and
\* fixed protocols has just been made from the value of the third call.
C21_Witness ==
  /\ lastOp = "reconnect"
  /\ urlProvider = "function"
  /\ protocolsProvider = "value"
  /\ Len(socks) = 3
  /\ providerCalls = [url |-> 3, protocols |-> 0]
  /\ socks[3].url = 3
  /\ socks[3].protocols = 0

\* ------------------------------------------- scenario: default delay policy
\* A handle without a reconnectionDelay option whose connections all close
\* before they open: the loop waits out the default delay of every attempt.
InitDelay ==
  Is(RunIteration(
       ConstructedWith("value", "value", MaxDefaultRetries, [set |-> FALSE, ms |-> 0],
                       [kind |-> "default", ms |-> 0]),
       "ok"))

NextDelay ==
  \/ \E id \in Ids : TClose(id)
  \/ Tick
  \/ LoopContinueWith("return")
  \/ SleepResolveWith("ok")

SpecDelay == InitDelay /\ [][NextDelay]_vars

\* 150 for the first retry, then twice the previous delay, but never above
\* 10000.
RECURSIVE Doubled(_)
Doubled(n) == IF n = 0 THEN 150 ELSE Min(2 * Doubled(n - 1), 10000)

Live == {id \in Ids : socks[id].readyState # CLOSED}

\* C24 as stated: at most one connection is connecting, open or closing, and
\* a connection is created only when every earlier one is closed.
C24_OneLiveConnection ==
  /\ Cardinality(Live) <= 1
  /\ \A id \in Ids : id < Len(socks) => socks[id].readyState = CLOSED

\* C24 amended: every connection but the last has had its close handled (its
\* listeners are detached) and is closing or closed, so at most one
\* connection is connecting or open; a connection is created only by the
\* loop, when the close of the one before it has been handled.
C24_OneActiveConnection ==
  /\ \A id \in Ids : id < Len(socks) =>
        /\ ~socks[id].attached
        /\ socks[id].readyState \in {CLOSING, CLOSED}
  /\ [][Len(socks') > Len(socks) =>
          /\ Len(socks') = Len(socks) + 1
          /\ lastOp' = "reconnect"
          /\ ~socks[Len(socks)].attached
          /\ socks[Len(socks)].readyState \in {CLOSING, CLOSED}]_vars
  /\ [][\A id \in Ids : id < Len(socks') =>
          /\ ~socks'[id].attached
          /\ socks'[id].readyState \in {CLOSING, CLOSED}]_vars

\* C24 witness: the second connection has been created while the first, whose
\* close was synthesized, is still closing.
C24_Witness ==
  /\ lastOp = "reconnect"
  /\ Len(socks) = 2
  /\ socks[1].readyState = CLOSING
  /\ socks[2].readyState = CONNECTING
  /\ NotTerminated

\* ------------------------------------------------- the close of an attempt
\* Connections whose close the handle has handled.
Handled == {id \in Ids : ~socks[id].attached}

Notification(id) ==
  \/ lastOp' = "open" /\ TOpen(id)
  \/ lastOp' = "message" /\ TMessage(id)
  \/ lastOp' = "error" /\ TError(id)
  \/ lastOp' = "closed" /\ TClose(id)

OpensCurrent ==
  /\ lastOp' = "open"
  /\ socks[Len(socks)].attached
  /\ socks[Len(socks)].readyState = CONNECTING
  /\ socks'[Len(socks)].readyState # CONNECTING

\* C27: the flush of an open hands the buffered entries to the connection in
\* order.  When a send throws, the entries before it have been accepted and
\* are removed, the failed entry and those after it stay in order, the
\* connection is closed by the handle and is still awaited, and no public
\* event is emitted; when none throws, every entry has been handed over, the
\* buffer is empty and the step emits the open event, once.
C27_FlushFailure ==
  [][OpensCurrent =>
       LET n == Len(handed')
           failed == n > 0 /\ Throws(handed'[n].result)
       IN /\ n <= Len(messageBuffer)
          /\ \A i \in 1..n : /\ handed'[i].data = messageBuffer[i]
                              /\ handed'[i].sock = Len(socks)
                              /\ i < n => handed'[i].result = "accepted"
          /\ IF failed
             THEN /\ messageBuffer' = SubSeq(messageBuffer, n, Len(messageBuffer))
                  /\ socks'[Len(socks)].readyState = CLOSING
                  /\ socks'[Len(socks)].attached
                  /\ pc' = "await"
                  /\ emitted' = <<>>
                  /\ eventCount' = eventCount
             ELSE /\ n = Len(messageBuffer)
                  /\ messageBuffer' = <<>>
                  /\ socks'[Len(socks)].readyState = OPEN
                  /\ emitted' = <<Event("open")>>
                  /\ eventCount'.open = eventCount.open + 1]_vars

\* C27 witness: the flush failed at the first of two buffered payloads: both
\* are still buffered, the connection is closing and no open was announced.
C27_Witness ==
  /\ lastOp = "open"
  /\ Len(handed) = 1
  /\ handed[1].result = "SendError"
  /\ messageBuffer = <<1, 2>>
  /\ sent = <<>>
  /\ socks[Len(socks)].readyState = CLOSING
  /\ eventCount.open = 0

\* ------------------------------------------------------- the end of the loop
\* _runLoop has returned.
LoopStopped == pc = "done"

\* C28: when the loop has stopped the handle is terminated and its cause is
\* one of the three termination causes; the loop stops only in a step that
\* leaves the handle terminated, and never starts again.
C28_StoppedIsTerminated ==
  /\ LoopStopped =>
       /\ Terminated
       /\ TerminationReason(St).code \in ErrorCodes
       /\ eventCount.terminate = 1
  /\ [][/\ LoopStopped' => (Terminated' /\ TerminationReason(St)'.code \in ErrorCodes)
        /\ LoopStopped => LoopStopped']_vars

\* C28 witness: the loop has just stopped on the retry limit.
C28_Witness ==
  /\ LoopStopped
  /\ lastOp = "loop"
  /\ TerminationReason(St) = ReconnectingWebSocketError("RECONNECTION_LIMIT", "none")
  /\ eventCount.terminate = 1

\* ------------------------------------------------ termination during backoff
\* C29: a permanent close() while the loop sleeps cancels the timer and
\* rejects the sleep in the same step, with the handle terminated by the
\* user; from then until the loop has stopped, which is the next step of the
\* loop, no connection is created, the cause stays TERMINATED_BY_USER and no
\* terminate event is dispatched.
C29_BackoffCancelled ==
  /\ pc = "rejected" => TerminatedByUser
  /\ [][/\ (pc = "sleep" /\ lastOp' = "close" /\ NotTerminated) =>
             /\ pc' = "rejected"
             /\ sleepLeft' = 0
             /\ TerminatedByUser'
             /\ Count(emitted', "terminate") = 1
             /\ Len(socks') = Len(socks)
        /\ pc' = "rejected" => TerminatedByUser'
        /\ pc = "rejected" =>
             /\ pc' \in {"rejected", "done"}
             /\ lastOp' = "catch" <=> pc' = "done"
             /\ Len(socks') = Len(socks)
             /\ abortController' = abortController
             /\ Count(emitted', "terminate") = 0
             /\ eventCount'.terminate = 1]_vars

\* C29 witness: the loop has stopped after a permanent close() during the
\* delay that followed the close of the first connection.
C29_Witness ==
  /\ lastOp = "catch"
  /\ pc = "done"
  /\ TerminatedByUser
  /\ Len(socks) = 1
  /\ socks[1].readyState = CLOSED
  /\ attempt = 1
  /\ eventCount = [open |-> 0, close |-> 1, terminate |-> 1]

\* ------------------------------------------------------- the connect timer
\* The step is the timer callback of connection id.
TimerFires(id) ==
  /\ lastOp' = "timeout"
  /\ socks[id].timer = "armed"
  /\ socks'[id].timer = "off"

\* C30: a connect timer is pending only while its connection is connecting,
\* so it is cleared in the step in which the connection opens, starts closing
\* or closes; when it fires, its connection is connecting and is the only one
\* the step changes, and the one close event emitted is for that connection.
C30_TimerScopedToAttempt ==
  /\ \A id \in Ids : socks[id].timer = "armed" => socks[id].readyState = CONNECTING
  /\ [][/\ \A id \in Ids :
             socks'[id].timer = "armed" => socks'[id].readyState = CONNECTING
        /\ lastOp' = "timeout" => \E id \in Ids : TimerFires(id)
        /\ \A id \in Ids : TimerFires(id) =>
             /\ socks[id].readyState = CONNECTING
             /\ socks'[id].readyState = CLOSING
             /\ \A other \in Ids \ {id} : socks'[other] = socks[other]
             /\ socks[id].attached =>
                  (id = Len(socks) /\ ~socks'[id].attached
                   /\ emitted' = <<CloseEvent(TimeoutCode, "Timeout", FALSE)>>)]_vars

\* C30 witness: the second connection of a handle with a connect timeout has
\* just opened; its timer and that of the first connection are cleared.
C30_Witness ==
  /\ lastOp = "open"
  /\ reconnectOptions.connectionTimeout.set
  /\ Len(socks) = 2
  /\ socks[1].timer = "off"
  /\ socks[2].readyState = OPEN
  /\ socks[2].timer = "off"
  /\ eventCount.open = 1

\* ------------------------------------------------ errors while connecting
\* C31: an error notification leaves the connect timer of a connection that
\* is still connecting armed, with the time it had left, so that the
\* connection is still force-closed at its deadline.
C31_ErrorKeepsDeadline ==
  [][lastOp' = "error" =>
       \A id \in Ids :
         (socks[id].readyState = CONNECTING /\ socks[id].timer = "armed") =>
            /\ socks'[id].timer = "armed"
            /\ socks'[id].left = socks[id].left]_vars

\* The step is an error notification for the connection the loop awaits.
ErrorOnCurrent ==
  /\ lastOp' = "error"
  /\ socks[Len(socks)].attached
  /\ TError(Len(socks))

\* C32: an error notification for the awaited connection emits one public
\* error event and nothing else, and leaves the attempt where it was: the
\* loop keeps awaiting the same connection, in the same state and still
\* listened to, and the attempt counter, the buffer and the number of
\* connections are unchanged; the await ends only in a step that emits a
\* close event.
C32_ErrorDoesNotEndAttempt ==
  [][/\ ErrorOnCurrent =>
          /\ emitted' = <<Event("error")>>
          /\ eventCount' = eventCount
          /\ pc = "await" /\ pc' = "await"
          /\ attempt' = attempt
          /\ messageBuffer' = messageBuffer
          /\ Len(socks') = Len(socks)
          /\ socks'[Len(socks)].attached
          /\ socks'[Len(socks)].readyState = socks[Len(socks)].readyState
          /\ abortController' = abortController
     /\ (pc = "await" /\ pc' # "await") => Count(emitted', "close") = 1]_vars

\* C32 witness: an error has been reported on the open first connection and
\* the loop still awaits it.
C32_Witness ==
  /\ lastOp = "error"
  /\ emitted = <<Event("error")>>
  /\ pc = "await"
  /\ Len(socks) = 1
  /\ socks[1].readyState = OPEN
  /\ socks[1].attached
  /\ eventCount = [open |-> 1, close |-> 0, terminate |-> 0]

\* ------------------------------------------ scenario: the application's calls
\* The application sends, closes with either value of `permanently`,
\* registers and removes a close listener, assigns onclose and binaryType,
\* while the first connection opens and closes and the loop goes on to its
\* delay or stops.
InitApplication ==
  Is(RunIteration(
       ConstructedWith("value", "value", 1, [set |-> FALSE, ms |-> 0],
                       [kind |-> "number", ms |-> MaxDelay]),
       "ok"))

NextApplication ==
  \/ Send
  \/ Close(TRUE)
  \/ Close(FALSE)
  \/ \E callback \in Callbacks : AddEventListener("close", callback, FALSE, FALSE)
  \/ \E callback \in Callbacks : RemoveEventListener("close", callback, FALSE)
  \/ AssignOnHandler("close", "g")
  \/ AssignBinaryType("arraybuffer")
  \/ \E id \in Ids : TOpen(id)
  \/ \E id \in Ids : TClose(id)
  \/ LoopContinueWith("return")
  \/ LoopCatch

SpecApplication == InitApplication /\ [][NextApplication]_vars

\* Steps of the loop and of the lifecycle awaiter that may change the attempt
\* counter or the buffer.
LoopSteps == {"open", "loop", "catch", "reconnect"}

\* send() appends one payload or leaves the buffer alone.
SendFrame ==
  lastOp' = "send" =>
    /\ attempt' = attempt
    /\ messageBuffer' \in {messageBuffer, Append(messageBuffer, nSends')}

\* C33 as stated: the attempt counter and the buffer change only in steps of
\* the loop and of the awaiter and in send(), which appends one payload.
C33_OnlyLoopAndSend ==
  [][/\ (attempt' # attempt \/ messageBuffer' # messageBuffer) =>
          lastOp' \in LoopSteps \cup {"send"}
     /\ SendFrame]_vars

\* C33 amended: besides the loop, the awaiter and send(), a permanent close()
\* changes the buffer, which it empties; it leaves the attempt counter alone,
\* and close(false), listener calls and assignments change neither.
C33_FrameWithClose ==
  [][/\ (attempt' # attempt \/ messageBuffer' # messageBuffer) =>
          lastOp' \in LoopSteps \cup {"send", "close"}
     /\ SendFrame
     /\ lastOp' = "close" => (attempt' = attempt /\ messageBuffer' = <<>>)]_vars

\* C33 witness: a permanent close() has discarded the two payloads that
\* were buffered while the first connection was connecting.
C33_Witness ==
  /\ lastOp = "close"
  /\ nSends = 2
  /\ sent = <<>>
  /\ messageBuffer = <<>>
  /\ Len(socks) = 1
  /\ Terminated

\* ------------------------------------------------- scenario: ways of closing
\* The application closes with a code and a reason of its own, with either
\* value of `permanently`; connections open, are closed by the transport
\* cleanly or not, or run into the connect timeout, and the loop reconnects.
CloseArgs == {[code |-> 1000, reason |-> "done"], [code |-> 3001, reason |-> "app"]}

InitClosing ==
  /\ InitWith({"ok"})
  /\ reconnectOptions.maxRetries = MaxRetriesOpt

NextClosing ==
  \/ \E given \in CloseArgs, permanently \in BOOLEAN : CloseWith(given, permanently)
  \/ \E id \in Ids : TOpen(id)
  \/ \E id \in Ids : TClose(id)
  \/ \E id \in Ids : ConnectTimeout(id)
  \/ Tick
  \/ LoopContinueWith("return")
  \/ LoopCatch
  \/ SleepResolveWith("ok")

SpecClosing == InitClosing /\ [][NextClosing]_vars

\* The close events among the events of a step.
Closes(events) == SelectSeq(events, LAMBDA ev : ev.type = "close")

\* C34: the close event of a step repeats the code, the reason and the clean
\* flag of the transport's notification when the transport closed the awaited
\* connection; it is (3008, "Timeout", not clean) when the connect timeout
\* fired, and (1006, "", not clean) when close() was called on a connecting
\* connection, whatever code and reason the call gave; no other step emits
\* a close event.
C34_CloseEventFields ==
  [][/\ \A e \in NativeCloses, id \in Ids :
          (lastOp' = "closed" /\ socks[id].attached /\ TCloseWith(id, e)) =>
             Closes(emitted') = <<CloseEvent(e.code, e.reason, e.wasClean)>>
     /\ (lastOp' = "timeout" /\ socks[Len(socks)].attached) =>
          Closes(emitted') = <<CloseEvent(3008, "Timeout", FALSE)>>
     /\ lastOp' \in {"close", "closeTemporary"} =>
          /\ args' \in CloseArgs \cup {NoArgs}
          /\ Closes(emitted') =
               IF socks[Len(socks)].readyState = CONNECTING /\ socks[Len(socks)].attached
               THEN <<CloseEvent(1006, "", FALSE)>>
               ELSE <<>>
     /\ Closes(emitted') # <<>> =>
          lastOp' \in {"closed", "timeout", "close", "closeTemporary"}]_vars

\* C34 witness: close(3001, "app") on a connecting handle has emitted the
\* terminate event and then a close event with code 1006.
C34_Witness ==
  /\ lastOp = "close"
  /\ args = [code |-> 3001, reason |-> "app"]
  /\ Len(emitted) = 2
  /\ emitted[1].type = "terminate"
  /\ emitted[2] = CloseEvent(1006, "", FALSE)

\* ---------------------------------------------------------- the retry budget
\* C35: the attempt counter is between 0 and maxRetries.  It is incremented
\* only by the loop and only from a value below maxRetries; the loop sleeps
\* only after an increment and a connection other than the first is created
\* only out of that sleep, so each new connection has used one unit of the
\* budget, which only an open gives back.
C35_AttemptWithinBudget ==
  /\ attempt \in 0..reconnectOptions.maxRetries
  /\ [][/\ attempt' \in 0..reconnectOptions.maxRetries
        /\ reconnectOptions' = reconnectOptions
        /\ attempt' > attempt =>
             /\ attempt < reconnectOptions.maxRetries
             /\ attempt' = attempt + 1
             /\ lastOp' = "loop"
        /\ (pc # "sleep" /\ pc' = "sleep") => attempt' = attempt + 1
        /\ (lastOp' = "loop" /\ attempt' = attempt) => pc' = "done"
        /\ Len(socks') > Len(socks) =>
             /\ pc = "sleep"
             /\ attempt' = attempt
             /\ attempt \in 1..reconnectOptions.maxRetries
             /\ Len(socks') = Len(socks) + 1
        /\ attempt' < attempt => lastOp' = "open"]_vars

\* C35 witness: with maxRetries = 2 the counter is 2 and the third
\* connection in a row that has not opened is being awaited.
C35_Witness ==
  /\ reconnectOptions.maxRetries = 2
  /\ attempt = 2
  /\ Len(socks) = 3
  /\ pc = "await"
  /\ eventCount.open = 0
  /\ socks[3].readyState = CONNECTING
  /\ NotTerminated

\* ------------------------------------------------------ open means flushed
\* C36: while the handle is not terminated and its current connection is
\* open, the buffer is empty, so a send() on an open connection hands its
\* payload to the transport with nothing waiting before it; the payloads
\* the transport accepted are in the order of the send calls.
C36_OpenMeansFlushed ==
  /\ (NotTerminated /\ Len(socks) > 0 /\ socks[Len(socks)].readyState = OPEN) =>
       messageBuffer = <<>>
  /\ Increasing(sent)
  /\ [][/\ (NotTerminated' /\ socks'[Len(socks')].readyState = OPEN) =>
             messageBuffer' = <<>>
        /\ Increasing(sent')
        /\ (lastOp' = "send" /\ NotTerminated /\ socks[Len(socks)].readyState = OPEN) =>
             /\ messageBuffer = <<>>
             /\ messageBuffer' = <<>>
             /\ Len(handed') = 1
             /\ handed'[1].data = nSends'
             /\ \A i \in DOMAIN sent : sent[i] < nSends']_vars

\* C36 witness: payload 1 was buffered and flushed by the open, and payload
\* 2, sent on the open connection, has reached the transport after it.
C36_Witness ==
  /\ lastOp = "send"
  /\ NotTerminated
  /\ socks[Len(socks)].readyState = OPEN
  /\ sent = <<1, 2>>
  /\ messageBuffer = <<>>
  /\ Len(handed) = 1

\* ------------------------------------------------- order of the last events
TerminatedByLimit ==
  /\ Terminated
  /\ TerminationReason(St) = ReconnectingWebSocketError("RECONNECTION_LIMIT", "none")

\* C37: the terminate event for RECONNECTION_LIMIT is emitted by the loop, on
\* its own, when every connection has had its close event emitted in an
\* earlier step and none is listened to any more; afterwards no step emits
\* any event.
C37_LimitTerminateIsLast ==
  [][/\ (~Terminated /\ TerminatedByLimit') =>
          /\ lastOp' = "loop"
          /\ pc = "resolved"
          /\ emitted' = <<TerminateEvent(TerminationReason(St)')>>
          /\ eventCount.close = Len(socks)
          /\ eventCount'.close = Len(socks')
          /\ \A id \in Ids : ~socks[id].attached
     /\ TerminatedByLimit =>
          /\ emitted' = <<>>
          /\ invoked' = <<>>
          /\ eventCount' = eventCount
          /\ Len(socks') = Len(socks)]_vars

\* C37 witness: after the termination for RECONNECTION_LIMIT the transport
\* closes the last connection, whose close had been synthesized by the
\* connect timeout; nothing more is emitted.
C37_Witness ==
  /\ TerminatedByLimit
  /\ lastOp = "closed"
  /\ emitted = <<>>
  /\ eventCount.terminate = 1
  /\ eventCount.close = Len(socks)
  /\ socks[Len(socks)].readyState = CLOSED

\* C38: close() with permanently = true on a handle that is not terminated,
\* while the current connection is connecting or open, emits the terminate
\* event before that connection's public close event, and exactly one public
\* close event of that connection follows it: when the connection was
\* connecting, close() itself emits it, right after the terminate event and
\* with code 1006; when it was open, close() emits the terminate event alone
\* and keeps listening to the connection, and the step in which the transport
\* reports the close emits the single close event and stops listening.
PermanentClose ==
  /\ lastOp' = "close"
  /\ NotTerminated
  /\ Terminated'
  /\ Len(socks) > 0

UserTerminate == TerminateEvent(ReconnectingWebSocketError("TERMINATED_BY_USER", "none"))

C39_NoOpenAfterTerminate ==
  [][Terminated =>
       /\ Count(emitted', "open") = 0
       /\ ~(lastOp' = "open" /\ handed' # <<>>)
       /\ \A id \in Ids :
            ~(lastOp' = "open" /\ socks[id].readyState = CONNECTING /\ socks[id].attached
                /\ socks'[id].readyState # CONNECTING)]_vars

\* ------------------------------- scenario: every connection opens, every flush fails
\* maxRetries >= 1 and no connect timeout; the application only sends; a
\* connection opens once the buffer holds something to flush, a send of the
\* flush throws, and the target closes the connection the open listener has
\* closed.
InitFlushFails ==
  \E maxRetries \in 1..MaxRetriesOpt, reconnectionDelay \in Delays :
    Is(RunIteration(
         ConstructedWith("value", "value", maxRetries, [set |-> FALSE, ms |-> 0],
                         reconnectionDelay),
         "ok"))

NextFlushFails ==
  \/ Send
  \/ \E id \in Ids : \E failAt \in 1..Len(messageBuffer) : TOpenWith(id, failAt)
  \/ \E id \in Ids : socks[id].readyState = CLOSING /\ TClose(id)
  \/ Tick
  \/ LoopContinueWith("return")
  \/ SleepResolveWith("ok")

SpecFlushFails ==
  /\ InitFlushFails
  /\ [][NextFlushFails]_vars
  /\ WF_vars(Send)
  /\ WF_vars(\E id \in Ids : \E failAt \in 1..Len(messageBuffer) : TOpenWith(id, failAt))
  /\ WF_vars(\E id \in Ids : socks[id].readyState = CLOSING /\ TClose(id))
  /\ WF_vars(Tick)
  /\ WF_vars(LoopContinueWith("return"))
  /\ WF_vars(SleepResolveWith("ok"))

\* C40: on a target where every connection opens and every flush fails, with
\* maxRetries >= 1: the open step whose flush fails announces no open, closes
\* the connection and leaves the attempt counter at 0; the loop step after
\* the close that follows reads attempt index 0, is below the limit and
\* schedules a reconnection; the handle never terminates with
\* RECONNECTION_LIMIT and goes on reconnecting up to the model's bound on
\* connections, whatever maxRetries is.
C40_FailedFlushKeepsBudget ==
  /\ [](~LimitTerminated)
  /\ [][/\ lastOp' = "open" =>
             /\ attempt' = 0
             /\ emitted' = <<>>
             /\ messageBuffer' # <<>>
             /\ socks'[Len(socks)].readyState = CLOSING
        /\ lastOp' = "loop" =>
             /\ attempt = 0
             /\ attempt' = 1
             /\ pc' = "sleep"
             /\ NotTerminated']_vars
  /\ <>[](Len(socks) = ConnectionCap /\ NotTerminated /\ pc = "sleep")

\* maxRetries = 1 and a third connection has failed its flush and closed:
\* without the reset the second close would have reached the limit.
C40_Witness ==
  /\ reconnectOptions.maxRetries = 1
  /\ Len(socks) = 3
  /\ lastOp = "loop"
  /\ pc = "sleep"
  /\ attempt = 1
  /\ NotTerminated
  /\ eventCount.open = 0
  /\ eventCount.close = 3

====
